---- MODULE Spec2Model ----
(***************************************************************************)
(* Model of the RBC forecasting pipeline: the Forecast Engine              *)
(* (rbc_forecast.train_and_forecast), the Accuracy Evaluator               *)
(* (rbc_forecast.evaluate), the cached Full-History Forecaster             *)
(* (streamlit_app.compute_full_forecast and main's next30 filter) and the  *)
(* Signal Generator (compute_signal_pct, compute_ma_signals,               *)
(* composite_signal).                                                      *)
(*                                                                         *)
(* Prices are exact integers (price units) and every quotient the code     *)
(* forms is kept as an exact fraction [num, den]; binary floating-point    *)
(* rounding is outside the model.  Dates are day numbers.                  *)
(***************************************************************************)
EXTENDS Integers, Sequences, FiniteSets, TLC

VARIABLES
    \* ---- Signal Generator, one predicted row (streamlit_app.py 116-122, 155-177)
    pred_price,     \* p: the predicted price of the row
    last_close,     \* L: df_full["y"].iloc[-1]
    threshold,      \* the slider value, in tenths of a percent
    pct_sig,        \* compute_signal_pct's vote, "none" before it ran
    ma_sig,         \* the moving-average voter's vote for the same row
    comp_sig,       \* composite_signal's result, "none" before it ran
    sigPc,          \* "idle" | "start" | "voted" | "done"
    \* ---- Forecast Engine (rbc_forecast.py 68-80); a frame is its sequence of dates
    df,             \* the input series' dates (ds), ascending
    forecast_days,  \* the requested horizon
    train_df,       \* df[:-test_days]
    test_df,        \* df[-test_days:]
    fit_input,      \* the frames handed to Prophet.fit, in call order
    forecast,       \* the dates of model.predict(future)
    eng_err,        \* "none", or the exception the call ended with
    engPc,          \* "idle" | "start" | "done"
    \* ---- Accuracy Evaluator (rbc_forecast.py 83-92); a frame maps ds to its value
    ev_forecast,    \* evaluate's forecast: ds -> yhat
    ev_test,        \* evaluate's test_df: ds -> y
    metrics,        \* the returned dict [rmse, mape], "none" before the call
    ev_err,         \* "none", or the exception the call ended with
    evPc,           \* "idle" | "start" | "done"
    \* ---- Full-History Forecaster (streamlit_app.py 20-62)
    source,         \* ticker -> rows yf.download returns now (0: empty frame)
    now,            \* the cache's clock, seconds
    cache,          \* st.cache_data store: key -> [present, value, stored_at]
    fit_count,      \* Prophet.fit invocations made by compute_full_forecast
    full_fit_input, \* the frame of the latest m.fit(df_full), <<>> before any
    full_res,       \* full_res of the latest run that reached line 57
    next30,         \* next30 of that run: None, or its ds column
    days,           \* "Forecast days" of that run
    calls,          \* log of the compute_full_forecast calls made so far: key,
                    \* time, rows the source held, result, fits made, frame fitted
    run_end,        \* how the latest run of main ended: "" | "no_data" |
                    \* "fit_error" | "shown"
    chPc,           \* "idle" | "ready"
    \* ---- Signal Generator, MovingAverageCrossover (streamlit_app.py 125-152);
    \* a frame is its sequence of rows [date, price]
    df_hist,        \* compute_ma_signals' df_hist (ds as date, y as price)
    preds,          \* compute_ma_signals' preds (date, pred as price)
    short_w,        \* short window
    long_w,         \* long window
    ma_signals,     \* the returned signals, in preds' row order
    maPc            \* "idle" | "start" | "done"

sigVars == <<pred_price, last_close, threshold, pct_sig, ma_sig, comp_sig, sigPc>>
engVars == <<df, forecast_days, train_df, test_df, fit_input, forecast, eng_err, engPc>>

evVars == <<ev_forecast, ev_test, metrics, ev_err, evPc>>

chVars == <<source, now, cache, fit_count, full_fit_input, full_res, next30, days,
            calls, run_end, chPc>>

maVars == <<df_hist, preds, short_w, long_w, ma_signals, maPc>>

vars == <<sigVars, engVars, evVars, chVars, maVars>>

-----------------------------------------------------------------------------
(* Bounds of the model. *)

MaxPrice == 105
MaxLen == 6             \* short series have 1..MaxLen rows
MaxSmallHorizon == 4    \* short horizons are 1..MaxSmallHorizon
MaxDate == 3            \* the evaluator's frames hold dates 1..MaxDate
MaxVal == 2             \* the evaluator's prices are 0..MaxVal
MaxNewRows == 1         \* trading days a ticker's history can gain
MaxRuns == 3            \* dashboard runs per behaviour
MaxHist == 3            \* compute_ma_signals: df_hist has 1..MaxHist rows
MaxPreds == 2           \* compute_ma_signals: preds has 1..MaxPreds rows

(* Program constants. *)

MinThreshTenths == 1      \* st.slider min_value = 0.1
MaxThreshTenths == 100    \* st.slider max_value = 10.0
MaxTestDays == 90         \* test_days = min(forecast_days, 90)
MinFitRows == 2           \* Prophet.fit: "Dataframe has less than 2 non-NaN rows"
MaxForecastDays == 365    \* st.number_input("Forecast days", max_value=365)
TTL == 3600               \* @st.cache_data(ttl=3600)
NextDays == 30            \* compute_full_forecast(ticker, str(start), 30), .head(30)
MinShortW == 2            \* st.number_input("Short MA window (days)", min_value=2)
DefaultShortW == 5        \* st.number_input("Short MA window (days)", value=5)
DefaultLongW == 20        \* st.number_input("Long MA window (days)", value=20)

Signals == {"Buy", "Sell", "Hold"}

-----------------------------------------------------------------------------
(* Exact fractions. *)

Frac(n, d) == [num |-> n, den |-> d]

\* a fraction with a positive denominator (den # 0)
Norm(a) == IF a.den < 0 THEN Frac(-a.num, -a.den) ELSE a

FracGeq(a, b) == Norm(a).num * Norm(b).den >= Norm(b).num * Norm(a).den
FracLeq(a, b) == Norm(a).num * Norm(b).den <= Norm(b).num * Norm(a).den
FracNeg(a) == Frac(-a.num, a.den)
FracTimes(a, k) == Frac(a.num * k, a.den)

\* the slider's value in percent: tenths / 10
ThreshPercent(tenths) == Frac(tenths, 10)

-----------------------------------------------------------------------------
(* Signal Generator: PercentThreshold and Composite. *)

\* the same as compute_signal_pct with strict comparisons
compute_signal_pct_strict(pred, last, thresh) ==
    LET pct == FracTimes(Frac(pred - last, last), 100)
    IN  IF ~FracLeq(pct, thresh) THEN "Buy"
        ELSE IF ~FracGeq(pct, FracNeg(thresh)) THEN "Sell"
        ELSE "Hold"

\* the same as compute_signal_pct with the Sell test against +thresh
compute_signal_pct_sellsign(pred, last, thresh) ==
    LET pct == FracTimes(Frac(pred - last, last), 100)
    IN  IF FracGeq(pct, thresh) THEN "Buy"
        ELSE IF FracLeq(pct, thresh) THEN "Sell"
        ELSE "Hold"

compute_signal_pct(pred, last, thresh) ==
    LET pct == FracTimes(Frac(pred - last, last), 100)
    IN  IF FracGeq(pct, thresh) THEN "Buy"
        ELSE IF FracLeq(pct, FracNeg(thresh)) THEN "Sell"
        ELSE "Hold"

\* votes.count(x) for votes = [pct, ma]
VoteCount(pct, ma, x) == (IF pct = x THEN 1 ELSE 0) + (IF ma = x THEN 1 ELSE 0)

composite_signal(pct, ma) ==
    IF VoteCount(pct, ma, "Buy") > VoteCount(pct, ma, "Sell") THEN "Buy"
    ELSE IF VoteCount(pct, ma, "Sell") > VoteCount(pct, ma, "Buy") THEN "Sell"
    ELSE "Hold"

IdleSignal ==
    /\ pred_price = 0
    /\ last_close = 0
    /\ threshold = 0
    /\ ma_sig = "none"
    /\ pct_sig = "none"
    /\ comp_sig = "none"
    /\ sigPc = "idle"

IdleEngine ==
    /\ df = <<>>
    /\ forecast_days = 0
    /\ train_df = <<>>
    /\ test_df = <<>>
    /\ fit_input = <<>>
    /\ forecast = <<>>
    /\ eng_err = "none"
    /\ engPc = "idle"

IdleEval ==
    /\ ev_forecast = <<>>
    /\ ev_test = <<>>
    /\ metrics = "none"
    /\ ev_err = "none"
    /\ evPc = "idle"

IdleCache ==
    /\ source = <<>>
    /\ now = 0
    /\ cache = <<>>
    /\ fit_count = 0
    /\ full_fit_input = <<>>
    /\ full_res = [is_none |-> TRUE, df_full |-> <<>>, forecast_full |-> <<>>]
    /\ next30 = [is_none |-> TRUE, ds |-> <<>>]
    /\ days = 0
    /\ calls = <<>>
    /\ run_end = ""
    /\ chPc = "idle"

IdleMa ==
    /\ df_hist = <<>>
    /\ preds = <<>>
    /\ short_w = 0
    /\ long_w = 0
    /\ ma_signals = <<>>
    /\ maPc = "idle"

InitSignal ==
    /\ IdleEngine
    /\ IdleEval
    /\ IdleCache
    /\ IdleMa
    /\ pred_price \in 0..MaxPrice
    /\ last_close \in {1, 3, 50, 100}
    /\ threshold \in MinThreshTenths..MaxThreshTenths
    /\ ma_sig \in Signals
    /\ pct_sig = "none"
    /\ comp_sig = "none"
    /\ sigPc = "start"

\* pct_sigs = next30_display["pred"].apply(compute_signal_pct(p, last_close, threshold))
ComputeSignalPct ==
    /\ sigPc = "start"
    /\ pct_sig' = compute_signal_pct(pred_price, last_close, ThreshPercent(threshold))
    /\ sigPc' = "voted"
    /\ UNCHANGED <<pred_price, last_close, threshold, ma_sig, comp_sig>>
    /\ UNCHANGED <<engVars, evVars, chVars, maVars>>

\* next30_display["signal"] = [composite_signal(p, m) for p, m in zip(pct_sigs, ma_sigs)]
CompositeSignal ==
    /\ sigPc = "voted"
    /\ comp_sig' = composite_signal(pct_sig, ma_sig)
    /\ sigPc' = "done"
    /\ UNCHANGED <<pred_price, last_close, threshold, pct_sig, ma_sig>>
    /\ UNCHANGED <<engVars, evVars, chVars, maVars>>

NextSignal == ComputeSignalPct \/ CompositeSignal

SpecSignal == InitSignal /\ [][NextSignal]_vars

-----------------------------------------------------------------------------
(* C1: for predicted price p, last price L > 0 and threshold t > 0, with   *)
(* pct = (p - L) / L * 100, compute_signal_pct answers Buy if pct >= t,    *)
(* Sell if pct <= -t and Hold otherwise; p = 1.02 L with t = 1.0 gives Buy *)
(* and p = 0.98 L with t = 1.0 gives Sell.  (pct >= t is                   *)
(* 1000 (p - L) >= tenths * L for L > 0.)                                  *)
C1_PercentThreshold ==
    sigPc \in {"voted", "done"} =>
        /\ pct_sig = "Buy" <=>
             1000 * (pred_price - last_close) >= threshold * last_close
        /\ pct_sig = "Sell" <=>
             1000 * (pred_price - last_close) <= -(threshold * last_close)
        /\ pct_sig = "Hold" <=>
             /\ 1000 * (pred_price - last_close) < threshold * last_close
             /\ 1000 * (pred_price - last_close) > -(threshold * last_close)
        /\ (100 * pred_price = 102 * last_close /\ threshold = 10) => pct_sig = "Buy"
        /\ (100 * pred_price = 98 * last_close /\ threshold = 10) => pct_sig = "Sell"

\* the 2%-above example of the spec has been voted on
C1_Witness ==
    /\ sigPc = "voted"
    /\ 100 * pred_price = 102 * last_close
    /\ threshold = 10
    /\ pct_sig = "Buy"

(* C2 as claimed: a predicted price whose percentage change from L is      *)
(* within +-t, the changes of exactly +t and exactly -t included, yields   *)
(* Hold.                                                                   *)
C2_TiesHold ==
    sigPc \in {"voted", "done"} =>
        ( ( /\ 1000 * (pred_price - last_close) <= threshold * last_close
            /\ 1000 * (pred_price - last_close) >= -(threshold * last_close) )
          => pct_sig = "Hold" )

(* C2 as amended: a percentage change strictly within +-t yields Hold; a   *)
(* change of exactly +t yields Buy and a change of exactly -t yields Sell. *)
C2_StrictlyWithinHold ==
    sigPc \in {"voted", "done"} =>
        /\ ( /\ 1000 * (pred_price - last_close) < threshold * last_close
             /\ 1000 * (pred_price - last_close) > -(threshold * last_close) )
           => pct_sig = "Hold"
        /\ 1000 * (pred_price - last_close) = threshold * last_close
           => pct_sig = "Buy"
        /\ 1000 * (pred_price - last_close) = -(threshold * last_close)
           => pct_sig = "Sell"

\* a change of exactly +t has been voted Buy
C2_Witness ==
    /\ sigPc = "voted"
    /\ 1000 * (pred_price - last_close) = threshold * last_close
    /\ pct_sig = "Buy"

(* C3: for every pair of votes (pct_sig, ma_sig) the composite result is   *)
(* the common vote when the two voters agree and Hold whenever they        *)
(* disagree, Buy against Hold and Sell against Hold included.              *)
C3_CompositeAgreement ==
    sigPc = "done" =>
        comp_sig = (IF pct_sig = ma_sig THEN pct_sig ELSE "Hold")

-----------------------------------------------------------------------------
(* Forecast Engine: train_and_forecast. *)

Min(a, b) == IF a <= b THEN a ELSE b
Max(a, b) == IF a >= b THEN a ELSE b

Range(s) == {s[i] : i \in 1..Len(s)}

\* a Python slice bound i on a sequence of n rows, as a count of rows
SliceIndex(n, i) == IF i < 0 THEN Max(n + i, 0) ELSE Min(i, n)

\* frame[:stop]
SliceTo(frame, stop) == SubSeq(frame, 1, SliceIndex(Len(frame), stop))

\* frame[start:]
SliceFrom(frame, start) ==
    SubSeq(frame, SliceIndex(Len(frame), start) + 1, Len(frame))

\* Prophet.fit raises ValueError on a history of fewer than 2 rows
FitAccepts(history) == Len(history) >= MinFitRows

\* make_future_dataframe with periods - 1 future days
make_future_dataframe_short(history, periods) ==
    history \o [i \in 1..(periods - 1) |-> history[Len(history)] + i]

\* Prophet.make_future_dataframe(periods), freq = 'D', include_history = True:
\* the history's dates, then the `periods` days after the history's last date
make_future_dataframe(history, periods) ==
    history \o [i \in 1..periods |-> history[Len(history)] + i]

\* a series of n rows: daily dates (gap = 0) or trading days (gap = 2: five
\* days, then a two-day weekend)
MkSeries(n, gap) == [i \in 1..n |-> i + gap * ((i - 1) \div 5)]

SeriesLens == (1..MaxLen) \cup {89, 90, 91, 92, 93}
Horizons == (1..MaxSmallHorizon) \cup {89, 90, 91, MaxForecastDays}

InitEngine ==
    /\ IdleSignal
    /\ IdleEval
    /\ IdleCache
    /\ IdleMa
    /\ \E n \in SeriesLens, gap \in {0, 2} : df = MkSeries(n, gap)
    /\ forecast_days \in Horizons
    /\ train_df = <<>>
    /\ test_df = <<>>
    /\ fit_input = <<>>
    /\ forecast = <<>>
    /\ eng_err = "none"
    /\ engPc = "start"

TrainAndForecast ==
    /\ engPc = "start"
    /\ LET test_days == Min(forecast_days, MaxTestDays)
           train == SliceTo(df, -test_days)
           test == SliceFrom(df, -test_days)
       IN  /\ train_df' = train
           /\ test_df' = test
           /\ fit_input' = Append(fit_input, train)
           /\ IF FitAccepts(train)
              THEN /\ forecast' = make_future_dataframe(train, forecast_days)
                   /\ eng_err' = "none"
              ELSE /\ forecast' = <<>>
                   /\ eng_err' = "ValueError"
    /\ engPc' = "done"
    /\ UNCHANGED <<df, forecast_days>>
    /\ UNCHANGED <<sigVars, evVars, chVars, maVars>>

NextEngine == TrainAndForecast

SpecEngine == InitEngine /\ [][NextEngine]_vars

TestDays == Min(forecast_days, MaxTestDays)

(* C4: with test_days = min(horizon, 90), when test_days < length(series)  *)
(* the test set is exactly the last test_days points and the training set  *)
(* exactly all preceding points (train followed by test is the series,     *)
(* train non-empty); when test_days >= length(series) the call fails with  *)
(* InsufficientHistory instead of fitting on an empty training set.        *)
C4_SplitOrInsufficientHistory ==
    engPc = "done" =>
        IF TestDays < Len(df)
        THEN /\ Len(test_df) = TestDays
             /\ train_df \o test_df = df
             /\ train_df # <<>>
        ELSE /\ eng_err = "InsufficientHistory"
             /\ \A i \in 1..Len(fit_input) : fit_input[i] # <<>>

(* C5 as claimed: whenever length(series) > min(horizon, 90) the call does *)
(* not fail and the forecast's dates include the training dates and every  *)
(* day from (series' last date + 1) through (series' last date + horizon). *)
C5_CoversSeriesHorizon ==
    (engPc = "done" /\ Len(df) > TestDays) =>
        /\ eng_err = "none"
        /\ Range(train_df) \subseteq Range(forecast)
        /\ \A i \in 1..forecast_days : df[Len(df)] + i \in Range(forecast)

(* C5 as amended: whenever length(series) > min(horizon, 90) the training  *)
(* set is non-empty and is what the fitter is given; the call fails only   *)
(* when the fitter rejects a training set of fewer than 2 rows, and        *)
(* otherwise the forecast's dates include the training dates and every day *)
(* from (training set's last date + 1) through (training set's last date + *)
(* horizon).                                                               *)
C5_CoversTrainHorizon ==
    (engPc = "done" /\ Len(df) > TestDays) =>
        /\ train_df # <<>>
        /\ fit_input = <<train_df>>
        /\ eng_err # "none" <=> Len(train_df) < 2
        /\ eng_err = "none" =>
             /\ Range(train_df) \subseteq Range(forecast)
             /\ \A i \in 1..forecast_days :
                  train_df[Len(train_df)] + i \in Range(forecast)

\* a 365-day horizon on 93 rows: 90 held out, 3 fitted, the forecast made
C5_Witness ==
    /\ engPc = "done"
    /\ Len(df) = 93
    /\ forecast_days = MaxForecastDays
    /\ Len(train_df) = 3
    /\ eng_err = "none"
    /\ train_df[3] + MaxForecastDays \in Range(forecast)

-----------------------------------------------------------------------------
(* Accuracy Evaluator: evaluate. *)

Abs(x) == IF x < 0 THEN -x ELSE x

FracPlus(a, b) == Frac(a.num * b.den + b.num * a.den, a.den * b.den)

\* the dates of actual.join(pred, how = "inner"): pred holds the forecast rows
\* whose ds is in test_df, and the join keeps the index values both sides hold
JoinedDates(fc, test) == (DOMAIN test) \cap {d \in DOMAIN fc : d \in DOMAIN test}

RECURSIVE SumSq(_, _, _)
\* sum over the dates D of (y - yhat) ** 2
SumSq(fc, test, D) ==
    IF D = {} THEN 0
    ELSE LET d == CHOOSE x \in D : TRUE
         IN  (test[d] - fc[d]) * (test[d] - fc[d]) + SumSq(fc, test, D \ {d})

RECURSIVE SumAbsRatio(_, _, _)
\* sum over the dates D of abs((y - yhat) / y), every y # 0
SumAbsRatio(fc, test, D) ==
    IF D = {} THEN Frac(0, 1)
    ELSE LET d == CHOOSE x \in D : TRUE
         IN  FracPlus(Frac(Abs(test[d] - fc[d]), Abs(test[d])),
                      SumAbsRatio(fc, test, D \ {d}))

None == [kind |-> "None"]

\* float(np.sqrt(np.mean((y - yhat) ** 2))): the root of the fraction `of`
Rmse(fc, test, D) ==
    [kind |-> "finite", root_of |-> Frac(SumSq(fc, test, D), Cardinality(D))]

\* float(np.mean(np.abs((y - yhat) / y)) * 100).  IEEE division: x / 0 is nan
\* for x = 0 and +-inf otherwise; a mean over a nan is nan, over an inf is inf
Mape(fc, test, D) ==
    IF \E d \in D : test[d] = 0 /\ test[d] - fc[d] = 0 THEN [kind |-> "nan"]
    ELSE IF \E d \in D : test[d] = 0 THEN [kind |-> "inf"]
    ELSE LET sum == SumAbsRatio(fc, test, D)
         IN  [kind |-> "finite",
              value |-> Frac(sum.num * 100, sum.den * Cardinality(D))]

\* evaluate answering 0.0 for both metrics when nothing joins
evaluate_zero_when_empty(fc, test) ==
    LET joined == JoinedDates(fc, test)
    IN  IF joined = {}
        THEN [rmse |-> [kind |-> "finite", root_of |-> Frac(0, 1)],
              mape |-> [kind |-> "finite", value |-> Frac(0, 1)]]
        ELSE [rmse |-> Rmse(fc, test, joined), mape |-> Mape(fc, test, joined)]

evaluate(fc, test) ==
    LET joined == JoinedDates(fc, test)
    IN  IF joined = {}
        THEN [rmse |-> None, mape |-> None]
        ELSE [rmse |-> Rmse(fc, test, joined), mape |-> Mape(fc, test, joined)]

\* the frames on non-empty sets of the dates 1..MaxDate with values 0..MaxVal
Frames ==
    UNION {[D -> 0..MaxVal] : D \in (SUBSET (1..MaxDate)) \ {{}}}

InitEval ==
    /\ IdleSignal
    /\ IdleEngine
    /\ IdleCache
    /\ IdleMa
    /\ ev_forecast \in Frames
    /\ ev_test \in Frames
    /\ metrics = "none"
    /\ ev_err = "none"
    /\ evPc = "start"

\* metrics = evaluate(forecast, test_df): no statement of evaluate raises
Evaluate ==
    /\ evPc = "start"
    /\ metrics' = evaluate(ev_forecast, ev_test)
    /\ ev_err' = "none"
    /\ evPc' = "done"
    /\ UNCHANGED <<ev_forecast, ev_test>>
    /\ UNCHANGED <<sigVars, engVars, chVars, maVars>>

NextEval == Evaluate

SpecEval == InitEval /\ [][NextEval]_vars

\* the dates both frames hold
Overlap == (DOMAIN ev_forecast) \cap (DOMAIN ev_test)

\* a frame cut down to the dates D
Restrict(f, D) == [d \in D |-> f[d]]

(* C6: predictions and actuals are joined on exact date equality; when the *)
(* forecast dates and the test dates do not intersect, evaluate returns    *)
(* rmse = mape = None, raises nothing and does not return zero; when they  *)
(* intersect, both metrics are computed over the intersection only: they   *)
(* are defined and unchanged by dropping every other row of either frame.  *)
C6_JoinOnOverlap ==
    evPc = "done" =>
        /\ ev_err = "none"
        /\ Overlap = {} => metrics = [rmse |-> None, mape |-> None]
        /\ Overlap # {} =>
             /\ metrics.rmse # None
             /\ metrics.mape # None
             /\ metrics.rmse.root_of.den = Cardinality(Overlap)
             /\ metrics = evaluate(Restrict(ev_forecast, Overlap),
                                   Restrict(ev_test, Overlap))

\* disjoint frames evaluated to None, None
C6_Witness ==
    /\ evPc = "done"
    /\ Overlap = {}
    /\ metrics = [rmse |-> None, mape |-> None]

(* C7: when the joined set is non-empty and some actual value in it is     *)
(* exactly zero, MAPE is reported as undefined (None) rather than a        *)
(* non-finite number, and RMSE is still computed for the same joined set.  *)
C7_ZeroActualMapeUndefined ==
    (evPc = "done" /\ \E d \in Overlap : ev_test[d] = 0) =>
        /\ metrics.mape = None
        /\ metrics.rmse.kind = "finite"

-----------------------------------------------------------------------------
(* Full-History Forecaster: compute_full_forecast behind st.cache_data, and *)
(* main's next30.                                                           *)

Tickers == {"RY.TO", "TD.TO"}
Starts == {"2010-01-01"}
Keys == Tickers \X Starts \X {NextDays}

\* fetch_data(ticker, start): the rows the source holds now, as dates
fetch_data(ticker, start) == MkSeries(source[ticker], 0)

\* compute_full_forecast returning None
NoneResult == [is_none |-> TRUE, df_full |-> <<>>, forecast_full |-> <<>>]

\* next30 = None
NoneFrame == [is_none |-> TRUE, ds |-> <<>>]

\* a key the cache holds nothing for
Absent == [present |-> FALSE, value |-> NoneResult, stored_at |-> 0]

\* the body of compute_full_forecast: None on an empty frame, else the pair
\* (df_full, forecast_full) of a model fitted on all of df_full
FullForecastBody(ticker_in, start_in, period) ==
    LET df_full == fetch_data(ticker_in, start_in)
    IN  IF df_full = <<>> THEN NoneResult
        ELSE [is_none |-> FALSE,
              df_full |-> df_full,
              forecast_full |-> make_future_dataframe(df_full, period)]

\* an entry that never expires
EntryValidForever(entry, t) == entry.present

\* st.cache_data(ttl): an entry is served while t < stored_at + ttl
EntryValid(entry, t) == entry.present /\ t - entry.stored_at < TTL

SelectAfter(frame, last) == SelectSeq(frame, LAMBDA d : d > last)

\* next30 with the last historical date kept (>=)
Next30From_inclusive(res) ==
    IF res.is_none THEN NoneFrame
    ELSE LET last_hist == res.df_full[Len(res.df_full)]
             after == SelectSeq(res.forecast_full, LAMBDA d : d >= last_hist)
         IN  [is_none |-> FALSE, ds |-> SubSeq(after, 1, Min(NextDays, Len(after)))]

\* forecast_full[forecast_full['ds'] > last_hist][...].head(30)
Next30From(res) ==
    IF res.is_none THEN NoneFrame
    ELSE LET last_hist == res.df_full[Len(res.df_full)]
             after == SelectAfter(res.forecast_full, last_hist)
         IN  [is_none |-> FALSE, ds |-> SubSeq(after, 1, Min(NextDays, Len(after)))]

InitCache ==
    /\ IdleSignal
    /\ IdleEngine
    /\ IdleEval
    /\ IdleMa
    /\ source \in {f \in [Tickers -> {0, 3, 32}] :
                        f["RY.TO"] # 0 /\ f["TD.TO"] # 32}
    /\ now = 0
    /\ cache = [k \in Keys |-> Absent]
    /\ fit_count = 0
    /\ full_fit_input = <<>>
    /\ full_res = NoneResult
    /\ next30 = NoneFrame
    /\ days = 0
    /\ calls = <<>>
    /\ run_end = ""
    /\ chPc = "ready"

\* the row counts a ticker's history takes: none, or a short or a long history
\* and the days it gains
RowCounts == {0} \cup (3..(3 + MaxNewRows)) \cup (32..(32 + MaxNewRows))

\* main's train_and_forecast(df, forecast_days=days) gets past model.fit
EngineFits(frame, d) == FitAccepts(SliceTo(frame, -Min(d, MaxTestDays)))

\* one run of main with the form submitted, lines 20-62, that gets past the
\* fetch and train_and_forecast, `elapsed` seconds after the previous one:
\* compute_full_forecast(ticker, str(start), 30) through the cache, then the
\* next30 filter
RunForecast ==
    /\ chPc = "ready"
    /\ Len(calls) < MaxRuns
    /\ \E ticker \in Tickers, start \in Starts, d \in {1, NextDays},
          elapsed \in {1, TTL - 1} :
        /\ fetch_data(ticker, start) # <<>>
        /\ EngineFits(fetch_data(ticker, start), d)
        /\ days' = d
        /\ run_end' = "shown"
        /\ now' = now + elapsed
        /\ LET key == <<ticker, start, NextDays>>
               hit == EntryValid(cache[key], now')
               res == IF hit THEN cache[key].value
                      ELSE FullForecastBody(ticker, start, NextDays)
               fitted == IF hit \/ res.is_none THEN 0 ELSE 1
           IN  /\ cache' = IF hit THEN cache
                           ELSE [cache EXCEPT ![key] =
                                    [present |-> TRUE, value |-> res,
                                     stored_at |-> now']]
               /\ fit_count' = fit_count + fitted
               /\ full_fit_input' = IF fitted = 1 THEN res.df_full
                                    ELSE full_fit_input
               /\ full_res' = res
               /\ next30' = Next30From(res)
               /\ calls' = Append(calls,
                                  [key |-> key, at |-> now', result |-> res,
                                   rows |-> source[ticker],
                                   fitted |-> fitted,
                                   fit_input |-> IF fitted = 1 THEN res.df_full
                                                 ELSE <<>>])
    /\ UNCHANGED <<source, chPc>>
    /\ UNCHANGED <<sigVars, engVars, evVars, maVars>>

\* the run ends at "No data returned for ticker" (lines 36-38)
RunNoData ==
    /\ chPc = "ready"
    /\ \E ticker \in Tickers, start \in Starts :
          fetch_data(ticker, start) = <<>>
    /\ run_end' = "no_data"
    /\ UNCHANGED <<source, now, cache, fit_count, full_fit_input, full_res,
                   next30, days, calls, chPc>>
    /\ UNCHANGED <<sigVars, engVars, evVars, maVars>>

\* the run ends in train_and_forecast (line 40): the history is too short for
\* the requested days and model.fit raises
RunFitError ==
    /\ chPc = "ready"
    /\ \E ticker \in Tickers, start \in Starts,
          d \in {1, NextDays, MaxForecastDays} :
        /\ fetch_data(ticker, start) # <<>>
        /\ ~EngineFits(fetch_data(ticker, start), d)
    /\ run_end' = "fit_error"
    /\ UNCHANGED <<source, now, cache, fit_count, full_fit_input, full_res,
                   next30, days, calls, chPc>>
    /\ UNCHANGED <<sigVars, engVars, evVars, maVars>>

\* the market data source gains a trading day for a ticker
NewData ==
    /\ chPc = "ready"
    /\ \E ticker \in Tickers :
        /\ source[ticker] > 0
        /\ source[ticker] + 1 \in RowCounts
        /\ source' = [source EXCEPT ![ticker] = @ + 1]
    /\ UNCHANGED <<now, cache, fit_count, full_fit_input, full_res, next30,
                   days, calls, run_end, chPc>>
    /\ UNCHANGED <<sigVars, engVars, evVars, maVars>>

NextCache == RunForecast \/ RunNoData \/ RunFitError \/ NewData

SpecCache == InitCache /\ [][NextCache]_vars

RECURSIVE Computes(_)
\* call j finds no entry of its key inside the validity window: no earlier call
\* of the same key computed less than TTL seconds before it
Computes(j) ==
    \A i \in 1..(j - 1) :
        (calls[i].key = calls[j].key /\ Computes(i))
            => calls[j].at - calls[i].at >= TTL

\* the calls of key k that computed
ComputingCalls(k) == {j \in 1..Len(calls) : calls[j].key = k /\ Computes(j)}

FullFitAndForward ==
    /\ \A j \in 1..Len(calls) :
         calls[j].fitted = 1 =>
             /\ calls[j].fit_input = calls[j].result.df_full
             /\ Len(calls[j].fit_input) = calls[j].rows
    /\ \A i \in 1..Len(next30.ds) :
         next30.ds[i] > full_res.df_full[Len(full_res.df_full)]
    /\ \A i \in 1..(Len(next30.ds) - 1) : next30.ds[i] < next30.ds[i + 1]

(* C9 as claimed: for every requested horizon (1..365) the model is fitted *)
(* on the entire series with no split, and the forward-looking result has  *)
(* only dates strictly after the series' last date, ascending, and at most *)
(* `horizon` entries, horizon being the requested forecast horizon.        *)
C9_AtMostRequestedHorizon ==
    ~next30.is_none =>
        /\ FullFitAndForward
        /\ Len(next30.ds) <= days

(* C9 as amended: the model is fitted on the entire series with no split,  *)
(* and the forward-looking result has only dates strictly after the        *)
(* series' last date, ascending, and at most 30 entries, whatever forecast *)
(* horizon (1..365) the caller requested.                                  *)
C9_AtMostThirty ==
    ~next30.is_none =>
        /\ FullFitAndForward
        /\ Len(next30.ds) <= NextDays

\* a run that asked for a 1-day horizon and got the 30 days after the last date
C9_Witness ==
    /\ ~next30.is_none
    /\ days = 1
    /\ Len(next30.ds) = NextDays
    /\ next30.ds[1] = full_res.df_full[Len(full_res.df_full)] + 1

-----------------------------------------------------------------------------
(* Signal Generator: MovingAverageCrossover, compute_ma_signals. *)

RECURSIVE DropDuplicatesUpTo(_, _)
\* the first i rows with every row dropped whose date an earlier row holds
DropDuplicatesUpTo(rows, i) ==
    IF i = 0 THEN <<>>
    ELSE IF \E j \in 1..(i - 1) : rows[j].date = rows[i].date
         THEN DropDuplicatesUpTo(rows, i - 1)
         ELSE Append(DropDuplicatesUpTo(rows, i - 1), rows[i])

\* drop_duplicates with keep = "last": a row is dropped when a later row holds
\* its date
DropDuplicates_keep_last(rows) ==
    LET kept == {i \in 1..Len(rows) :
                    \A j \in (i + 1)..Len(rows) : rows[j].date # rows[i].date}
        Nth(k) == CHOOSE i \in kept : Cardinality({j \in kept : j < i}) = k - 1
    IN  [k \in 1..Cardinality(kept) |-> rows[Nth(k)]]

\* rows.drop_duplicates(subset = "date"): keep = "first"
DropDuplicates(rows) == DropDuplicatesUpTo(rows, Len(rows))

\* Insert(sorted, r): r put before the first row of a later date
Insert(sorted, r) ==
    LET k == Cardinality({i \in 1..Len(sorted) : sorted[i].date <= r.date})
    IN  SubSeq(sorted, 1, k) \o <<r>> \o SubSeq(sorted, k + 1, Len(sorted))

RECURSIVE SortUpTo(_, _)
SortUpTo(rows, i) ==
    IF i = 0 THEN <<>> ELSE Insert(SortUpTo(rows, i - 1), rows[i])

\* rows.sort_values("date")
SortValues(rows) == SortUpTo(rows, Len(rows))

\* pd.concat([hist, preds_df]).drop_duplicates(subset="date").sort_values("date")
Combined(hist, pr) == SortValues(DropDuplicates(hist \o pr))

RECURSIVE SumPrice(_, _, _)
\* rows[lo].price + ... + rows[hi].price
SumPrice(rows, lo, hi) ==
    IF lo > hi THEN 0 ELSE rows[hi].price + SumPrice(rows, lo, hi - 1)

\* a rolling mean over the window + 1 latest rows
RollingMean_wide(rows, window, i) ==
    LET lo == Max(1, i - window) IN Frac(SumPrice(rows, lo, i), i - lo + 1)

\* a rolling mean with min_periods = window: nan (0 / 0, which compares false
\* both ways) until the window is full
RollingMean_full_window(rows, window, i) ==
    IF i < window THEN Frac(0, 0)
    ELSE Frac(SumPrice(rows, i - window + 1, i), window)

\* price_series.rolling(window = window, min_periods = 1).mean() at row i: the
\* mean of the rows max(1, i - window + 1) .. i
RollingMean(rows, window, i) ==
    LET lo == Max(1, i - window + 1) IN Frac(SumPrice(rows, lo, i), i - lo + 1)

\* ma_df.loc[d]: the row of the date d
Loc(rows, d) == CHOOSE i \in 1..Len(rows) : rows[i].date = d

FracGt(a, b) == Norm(a).num * Norm(b).den > Norm(b).num * Norm(a).den
FracLt(a, b) == Norm(a).num * Norm(b).den < Norm(b).num * Norm(a).den

compute_ma_signals(hist, pr, short, long) ==
    LET combined == Combined(hist, pr)
    IN  [n \in 1..Len(pr) |->
            LET i == Loc(combined, pr[n].date)
                s == RollingMean(combined, short, i)
                l == RollingMean(combined, long, i)
            IN  IF FracGt(s, l) THEN "Buy"
                ELSE IF FracLt(s, l) THEN "Sell"
                ELSE "Hold"]

\* the prices and the windows the calls are drawn from
MaPrices == 1..3
ShortWindows == MinShortW..(MinShortW + 1)
LongWindows(short) == (short + 1)..(MinShortW + 2)

\* the frames of n rows with the dates first, first + 1, ... and prices in
\* MaPrices
DailyFrames(first, n) ==
    {[i \in 1..n |-> [date |-> first + i - 1, price |-> f[i]]] :
        f \in [1..n -> MaPrices]}

\* df_hist holds the days 1..nh; preds starts on the day after, or on the last
\* historical day itself
InitMa ==
    /\ IdleSignal
    /\ IdleEngine
    /\ IdleEval
    /\ IdleCache
    /\ \E nh \in 1..MaxHist, np \in 1..MaxPreds, first \in 0..1 :
        /\ df_hist \in DailyFrames(1, nh)
        /\ preds \in DailyFrames(nh + first, np)
    /\ short_w \in ShortWindows
    /\ long_w \in LongWindows(short_w)
    /\ ma_signals = <<>>
    /\ maPc = "start"

ComputeMaSignals ==
    /\ maPc = "start"
    /\ ma_signals' = compute_ma_signals(df_hist, preds, short_w, long_w)
    /\ maPc' = "done"
    /\ UNCHANGED <<df_hist, preds, short_w, long_w>>
    /\ UNCHANGED <<sigVars, engVars, evVars, chVars>>

NextMa == ComputeMaSignals

SpecMa == InitMa /\ [][NextMa]_vars

\* the combined chronological series of the call, as date -> price
CombinedPrice ==
    LET c == Combined(df_hist, preds)
    IN  [d \in {c[i].date : i \in 1..Len(c)} |-> c[Loc(c, d)].price]

\* the dates of the (up to) w latest points of the combined series up to and
\* including d
WindowDates(d, w) ==
    {e \in DOMAIN CombinedPrice :
        /\ e <= d
        /\ Cardinality({x \in DOMAIN CombinedPrice : e < x /\ x <= d}) < w}

RECURSIVE SumOver(_, _)
SumOver(f, D) ==
    IF D = {} THEN 0
    ELSE LET d == CHOOSE x \in D : TRUE IN f[d] + SumOver(f, D \ {d})

\* mean over WindowDates(d, ws) minus mean over WindowDates(d, wl), scaled by
\* both window sizes: its sign is the sign of short MA - long MA
MaGap(d, ws, wl) ==
    SumOver(CombinedPrice, WindowDates(d, ws)) * Cardinality(WindowDates(d, wl))
    - SumOver(CombinedPrice, WindowDates(d, wl)) * Cardinality(WindowDates(d, ws))

(* C10: for every predicted date d, with the short and the long MA the     *)
(* simple moving averages of the combined chronological series over the    *)
(* points available up to and including d (min-periods 1), the signal at d *)
(* is Buy if short MA > long MA, Sell if short MA < long MA and Hold if    *)
(* they are equal; there is exactly one signal per predicted date, in the  *)
(* order of the input predictions.                                         *)
C10_MaCrossoverRule ==
    maPc = "done" =>
        /\ DOMAIN ma_signals = 1..Len(preds)
        /\ \A n \in 1..Len(preds) :
            LET gap == MaGap(preds[n].date, short_w, long_w)
            IN  /\ gap > 0 => ma_signals[n] = "Buy"
                /\ gap < 0 => ma_signals[n] = "Sell"
                /\ gap = 0 => ma_signals[n] = "Hold"

\* two predicted dates answered Sell then Buy, the long window longer than the
\* series is at the first of them
C10_Witness ==
    /\ maPc = "done"
    /\ Len(preds) = 2
    /\ ma_signals = <<"Sell", "Buy">>
    /\ Cardinality(WindowDates(preds[1].date, long_w)) < long_w
    /\ Cardinality(WindowDates(preds[2].date, short_w)) = short_w

-----------------------------------------------------------------------------
(* MovingAverageCrossover on rising prices, with the dashboard's default   *)
(* windows.                                                                *)

\* the price of row i of a rising series: it starts at 1 and gains `early` a
\* row up to row `turn` and `late` a row after it
RisingPrice(i, early, late, turn) ==
    1 + early * (Min(i, turn) - 1) + late * (Max(i, turn) - turn)

\* rows first .. last of such a series, dated by their row number
RisingRows(first, last, early, late, turn) ==
    [k \in 1..(last - first + 1) |->
        [date |-> first + k - 1,
         price |-> RisingPrice(first + k - 1, early, late, turn)]]

\* the history sizes of the rising calls: the shortest main can show, and those
\* around the two windows
RisingHistLens == (3..MaxHist) \cup {5, 19, 20, 21}

\* df_hist holds the days 1..nh and preds the np days after; the prices rise
\* from row to row over both
InitMaRising ==
    /\ IdleSignal
    /\ IdleEngine
    /\ IdleEval
    /\ IdleCache
    /\ \E nh \in RisingHistLens, np \in 1..MaxPreds,
          early \in 1..3, late \in 1..3 :
        \E turn \in 1..(nh + np) :
            /\ df_hist = RisingRows(1, nh, early, late, turn)
            /\ preds = RisingRows(nh + 1, nh + np, early, late, turn)
    /\ short_w = DefaultShortW
    /\ long_w = DefaultLongW
    /\ ma_signals = <<>>
    /\ maPc = "start"

SpecMaRising == InitMaRising /\ [][NextMa]_vars

\* the combined series rises strictly from each date to the next
StrictlyIncreasing ==
    \A d, e \in DOMAIN CombinedPrice :
        d < e => CombinedPrice[d] < CombinedPrice[e]

\* the number of combined points up to and including d
PositionOf(d) == Cardinality({e \in DOMAIN CombinedPrice : e <= d})

(* C11: for a strictly increasing combined price series and the windows    *)
(* short = 5 < long = 20, the short MA exceeds the long MA at the dates in *)
(* the tail of the series (every date after the first 5 points), so the    *)
(* signal at those predicted dates is Buy, and no date of such a series is *)
(* answered Sell.                                                          *)
C11_RisingSeriesBuys ==
    (maPc = "done" /\ StrictlyIncreasing
        /\ short_w = DefaultShortW /\ long_w = DefaultLongW) =>
        \A n \in 1..Len(preds) :
            /\ ma_signals[n] # "Sell"
            /\ PositionOf(preds[n].date) > DefaultShortW
                 => /\ ma_signals[n] = "Buy"
                    /\ MaGap(preds[n].date, DefaultShortW, DefaultLongW) > 0

\* a rising series of 21 historical days and two predicted ones, both past the
\* long window and both answered Buy
C11_Witness ==
    /\ maPc = "done"
    /\ StrictlyIncreasing
    /\ short_w = DefaultShortW
    /\ long_w = DefaultLongW
    /\ Len(df_hist) = 21
    /\ ma_signals = <<"Buy", "Buy">>
    /\ Cardinality(WindowDates(preds[1].date, DefaultLongW)) = DefaultLongW

-----------------------------------------------------------------------------
(* The series compute_ma_signals builds from the history and the           *)
(* predictions.                                                            *)

\* the dates of a frame
DatesOf(rows) == {rows[i].date : i \in 1..Len(rows)}

\* the dates both the history and the predictions hold
CollidingDates == DatesOf(df_hist) \cap DatesOf(preds)

\* each date at most once, in ascending order
UniqueAscending(rows) ==
    \A i, j \in 1..Len(rows) : i < j => rows[i].date < rows[j].date

\* the price the frame holds at its first row of date d
PriceAt(rows, d) == rows[Loc(rows, d)].price

====
